---- MODULE Spec2Model ----
(***************************************************************************)
(* Sale synchronisation and publication pipeline of bromato-sales.         *)
(*                                                                         *)
(* The model has three parties that share only the record store:           *)
(*   - the chain, whose signature feed for the royalty address grows,      *)
(*   - the ingestion run   (Service.SaveNewSales),                         *)
(*   - the publication run (Service.PublishNewSales).                      *)
(* Every remote call (solana RPC, couchbase, metadata host, twitter) may   *)
(* fail; a failure is a nondeterministic outcome of the step that makes    *)
(* the call.  A Go panic (nil dereference, index out of range) ends the    *)
(* run with the result "panic".                                            *)
(***************************************************************************)
EXTENDS Integers, Sequences, FiniteSets, TLC

\* ------------------------------------------------------------------ bounds
MaxFeed == 3          \* signatures the chain produces during a behaviour
MaxTime == 3          \* block times are 1..MaxTime
limit   == 2          \* page size of GetSignaturesForAddress (50 in the code)
MaxClock == 2         \* the time after a 429 answer runs over 0..MaxClock
MaxRetries == 3       \* retryRPC: retries is one of 0..MaxRetries (3 in the code)
MaxTimeout == 7       \* retryRPC: timeout is one of 1..MaxTimeout ticks (9 in the code)
MaxDo      == 2       \* retryRPC: one call of do takes 0..MaxDo ticks
MaxPrices  == 120     \* toSolPriceStr: the number of prices on the grid
MaxLimit   == 2       \* reader.List: the limit of the condition is one of 0..MaxLimit
MaxSegments == 2      \* uploadImageTwitter: images of up to MaxSegments full segments
MaxTypes   == 4       \* GetActivityHistory: up to MaxTypes trading types are given
MaxOver    == 1       \* GetActivityHistory: limits up to MaxOver off 0 and off 20

\* ------------------------------------------------------- program constants
Cutoff        == 2           \* "2021-12-01T00:00:00Z" on the 1..MaxTime scale
SolseaMinimum == 50000000    \* noise filter of createSalesRecord
PriceThreshold == 40000000   \* toSolPriceStr: prices below it give ""
lamportTensInSol == 9        \* toSolPriceStr: the decimal exponent of SOL
Backoff == 2                 \* retryRPC: time.Second*10, in ticks of 5 seconds
maxChunkSizeInBytes == 1048576   \* uploadImageAppend: 1024 * 1024

Ids   == 1..MaxFeed
Times == 1..MaxTime
NoSig == 0                   \* the zero solana.Signature

MagicEdenAddr == "MEisE1HzehtrDpAAT8PnLHjpSSkRYakotTuJRPjTpo8"
SolseaAddr    == "617jbWo616ggkDxvW1Le8pV38XLbVSyWY8ae6QUmGBAU"
OtherAddr     == "11111111111111111111111111111111"

Min(a, b) == IF a < b THEN a ELSE b
Max(a, b) == IF a < b THEN b ELSE a

\* ----------------------------------------------------------------- records
\* sales.PublishDetails behind a pointer: null, or {id, channel, time, success}
NullDetails == [null |-> TRUE, id |-> "", channel |-> "", time |-> "nil", success |-> FALSE]

PublishDetails(id) ==
    [null |-> FALSE, id |-> id, channel |-> "twitter", time |-> "now", success |-> TRUE]

\* sales.Record as createSalesRecord fills it in (CreatedAt set by Service.Create)
Record(id, saleTime, marketplace, price) ==
    [id |-> id, saleTime |-> saleTime, marketplace |-> marketplace, price |-> price,
     createdAt |-> "now", twitterMediaId |-> "", publishDetails |-> NullDetails]

\* what the chain knows of one signature: the block time of the signature and
\* the transaction behind it (meta present and without error, account keys,
\* balance change of the first account)
TxInputs ==
    { [meta |-> TRUE,  keys |-> <<OtherAddr, MagicEdenAddr>>, price |-> 60000000],
      [meta |-> TRUE,  keys |-> <<SolseaAddr>>,               price |-> 30000000],
      [meta |-> TRUE,  keys |-> <<OtherAddr>>,                price |-> 60000000],
      [meta |-> FALSE, keys |-> <<>>,                         price |-> 0] }

VARIABLES
    chain,        \* the signatures of the royalty address, oldest first; id = index
    store,        \* the documents of the nfts.sales collection
    ingPc,        \* position of the ingestion run: "idle", "fetch", "entry"
    ingUntil,     \* SaveNewSales: until
    ingBefore,    \* SaveNewSales: before
    ingPage,      \* SaveNewSales: signatures (ids, in the order returned)
    ingI,         \* SaveNewSales: index i into signatures
    ingResult,    \* the run's outcome: "none", "running", "ok", "err", "panic"
    ingStop,      \* where the last ended run stopped: "empty", "dup", "get", ...
    ingHist,      \* history of the ingestion runs (see IngestStart)
    creates,      \* history of the writer.Create calls of ingestion (see CreateCalled)
    pubPc,        \* position of the publication run: "idle", "media", "post", "record"
    pubSkip,      \* PublishNewSales: skipPublish
    pubOldest,    \* PublishNewSales: oldest, <<>> or <<record>>
    pubMediaID,   \* PublishNewSales: mediaID
    pubTweet,     \* PublishNewSales: id
    pubResult,    \* the run's outcome: "none", "running", "ok", "err", "panic"
    pubStop,      \* where the last ended run stopped
    pubDid,       \* history: remote effects of the current or last run
    pubReset,     \* publishSaleTweet: reset, the epoch of X-Rate-Limit-Reset
    posted,       \* history of the posts the channel accepted (see Posted)
    obs,          \* the histories that are recorded ("ingest", "runs", "publish",
                  \* "posted", "once", "api"), "clock" when time is followed, and
                  \* what a specification narrows its inputs to ("both", "noise",
                  \* "term", "unordered", "progress", "params")
    clock,        \* the time that has passed since the channel answered 429
    rt,           \* one call of retryRPC (see RetryStart)
    px,           \* one call of toSolPriceStr and the post text made of it
    api,          \* history: the last call of writer.Create / writer.UpdateFields
    up,           \* one call of uploadImageTwitter (see UploadStart)
    qp            \* one call of GetActivityHistory up to its request (see GetActivityHistory)

ingVars == <<ingPc, ingUntil, ingBefore, ingPage, ingI, ingResult, ingStop, ingHist>>

pubVars == <<pubPc, pubSkip, pubOldest, pubMediaID, pubTweet, pubResult, pubStop,
             pubDid, pubReset, posted>>

vars == <<chain, store, ingVars, creates, pubVars, obs, rt, px, api, clock, up, qp>>

\* a history variable takes the value new when its recorder is on
Observe(recorder, new, old) == IF recorder \in obs THEN new ELSE old

StoreIds == {r.id : r \in store}

\* ------------------------------------------------------------------- store
\* reader.Get: the document with this key, if any
Get(id) == {r \in store : r.id = id}

\* writer.Create / collection.Insert: insert-only, keyed by record.ID; the
\* insert is refused when the key exists
InsertAccepts(id) == Get(id) = {}

\* the document is written whether or not the key exists
Insert_upsert(rec) == (store \ Get(rec.id)) \cup {rec}

Insert(rec) == IF InsertAccepts(rec.id) THEN store \cup {rec} ELSE store

\* the order is DESC instead of ASC
OldestOf_newest(recs) == {r \in recs : \A q \in recs : r.saleTime >= q.saleTime}

\* reader.List with ORDER BY saleTime ASC LIMIT 1 over the records in recs:
\* the candidates for the single row returned
OldestOf(recs) == {r \in recs : \A q \in recs : r.saleTime <= q.saleTime}

\* ------------------------------------------------------------------- chain
\* marketplace transactions with prices on either side of the Solsea minimum
NoiseInputs ==
    {[meta |-> TRUE, keys |-> <<a>>, price |-> p] :
        a \in {SolseaAddr, MagicEdenAddr}, p \in {SolseaMinimum - 1, SolseaMinimum}}

\* the transactions that land on the chain.  Where the two loops run side by
\* side over one store, what is followed is the life of a record once it is
\* stored, and every transaction is a sale; where the end of a run is
\* followed, a transaction is a sale or touches no marketplace
ChainTx ==
    IF "both" \in obs
    THEN {tx \in TxInputs : tx.meta /\ MagicEdenAddr \in {tx.keys[k] : k \in DOMAIN tx.keys}}
    ELSE IF "noise" \in obs THEN NoiseInputs
    ELSE IF "term" \in obs THEN {tx \in TxInputs : tx.meta /\ tx.price >= SolseaMinimum}
    ELSE TxInputs

\* a new signature lands on the chain; block times never decrease
ChainAppend ==
    /\ Len(chain) < MaxFeed
    /\ \E t \in Times, tx \in ChainTx :
          /\ Len(chain) > 0 => t >= chain[Len(chain)].blockTime
          /\ chain' = Append(chain, [blockTime |-> t, tx |-> tx])
    /\ ingHist' = IF obs \cap {"ingest", "runs"} # {}
                  THEN [ingHist EXCEPT !.steady = FALSE, !.prevSteady = FALSE]
                  ELSE ingHist
    /\ UNCHANGED <<store, ingPc, ingUntil, ingBefore, ingPage, ingI, ingResult,
                   ingStop, creates, pubVars, obs, up, qp, rt, px, api, clock>>

\* rpc GetSignaturesForAddressWithOpts: newest first, strictly older than
\* before, strictly newer than until, at most limit signatures
GetSignaturesForAddress(before, until) ==
    LET hi == IF before = NoSig THEN Len(chain) ELSE before - 1
        lo == IF until \in 1..hi THEN until + 1 ELSE 1
        n  == Max(0, Min(limit, hi - lo + 1))
    IN  [k \in 1..n |-> hi - k + 1]

\* the page as SaveNewSales receives it.  The RPC node sends it newest first;
\* under "unordered" the source is one that does not keep that order, and the
\* page may come in any order
Pages(before, until) ==
    LET page == GetSignaturesForAddress(before, until)
    IN  IF "unordered" \in obs
        THEN {[k \in 1..Len(page) |-> page[f[k]]] : f \in Permutations(1..Len(page))}
        ELSE {page}


\* --------------------------------------------------------------- ingestion
\* isMarketplaceSale: the name of the first account key found in addressMap,
\* "" when no key is a known marketplace address
\* every address is taken for a marketplace
addressMap_any(a) ==
    IF a = MagicEdenAddr THEN "Magic Eden"
    ELSE IF a = SolseaAddr THEN "Solsea"
    ELSE "Unknown"

addressMap(a) ==
    IF a = MagicEdenAddr THEN "Magic Eden"
    ELSE IF a = SolseaAddr THEN "Solsea"
    ELSE ""

isMarketplaceSale(keys) ==
    LET hits == {i \in 1..Len(keys) : addressMap(keys[i]) # ""}
    IN  IF hits = {} THEN ""
        ELSE addressMap(keys[CHOOSE i \in hits : \A j \in hits : i <= j])

\* a lookup that never finds the signature
isCaughtUp_never(sig) == FALSE

\* isCaughtUp: the signature is already a document of the store
isCaughtUp(sig) == Get(sig) # {}

\* createSalesRecord: the Solsea noise filter
\* the minimum applied to every marketplace
IsNoise_any(price, marketplace) == price < SolseaMinimum

IsNoise(price, marketplace) == price < SolseaMinimum /\ marketplace = "Solsea"

\* getOldestSaleSignature: the id of the oldest stored record, or the zero
\* signature when the store is empty
OldestSaleSignatures ==
    IF store = {} THEN {NoSig} ELSE {r.id : r \in OldestOf(store)}

\* creates.called: the ids writer.Create was called with by ingestion runs;
\* creates.twice: some id was handed to writer.Create a second time;
\* creates.onStored: writer.Create was called with an id the store held
CreateCalled(id) ==
    [called   |-> creates.called \cup {id},
     twice    |-> creates.twice \/ id \in creates.called,
     onStored |-> creates.onStored \/ Get(id) # {}]

\* the run returns (or panics): SaveNewSales is over and its locals are gone
IngestEnd(result, why) ==
    /\ ingPc' = "idle"
    /\ ingResult' = result
    /\ ingStop' = Observe("ingest", why, ingStop)
    /\ ingBefore' = NoSig
    /\ ingPage' = <<>>
    /\ ingI' = 0

\* SaveNewSales up to the loop: until is computed once.  ingHist keeps, for
\* the run that starts, whether the feed is unchanged since it started
\* (steady), whether it has created a record (created) and whether a create
\* it called has failed (failed, under the recorder "ingest"), and under the
\* recorder "runs" also the outcome of the run before it (prev) and whether
\* the feed is unchanged since that run started (prevSteady).
IngestStart ==
    /\ ingPc = "idle"
    /\ ingHist' = IF "runs" \in obs
                  THEN [prev |-> ingResult, prevSteady |-> ingHist.steady,
                        steady |-> TRUE, created |-> FALSE, failed |-> FALSE]
                  ELSE Observe("ingest",
                           [ingHist EXCEPT !.steady = TRUE, !.created = FALSE,
                                           !.failed = FALSE], ingHist)
    /\ \/ /\ IngestEnd("err", "list")                  \* reader.List failed
          /\ UNCHANGED ingUntil
       \/ \E u \in OldestSaleSignatures :
             /\ ingPc' = "fetch"
             /\ ingUntil' = u
             /\ ingBefore' = NoSig
             /\ ingResult' = "running"
             /\ ingStop' = Observe("ingest", "none", ingStop)
             /\ UNCHANGED <<ingPage, ingI>>
    /\ UNCHANGED <<chain, store, creates, pubVars, obs, up, qp, rt, px, api, clock>>

\* one turn of the findNewSales loop up to the inner loop: fetch a page
IngestFetch ==
    /\ ingPc = "fetch"
    /\ \/ IngestEnd("err", "fetch")                    \* the RPC failed
       \/ \E signatures \in Pages(ingBefore, ingUntil) :
              IF Len(signatures) = 0
              THEN IngestEnd("ok", "empty")
              ELSE /\ ingPc' = "entry"
                   /\ ingPage' = signatures
                   /\ ingI' = 1
                   /\ UNCHANGED <<ingBefore, ingResult, ingStop>>
    /\ UNCHANGED <<chain, store, creates, pubVars, ingUntil, ingHist, obs, up, qp, rt, px, api, clock>>

\* before is left as it is when the page is done
IngestAdvance_stay ==
    /\ IF ingI < Len(ingPage)
       THEN /\ ingI' = ingI + 1
            /\ UNCHANGED <<ingPc, ingBefore, ingPage>>
       ELSE /\ ingPc' = "fetch"
            /\ ingPage' = <<>>
            /\ ingI' = 0
            /\ UNCHANGED ingBefore
    /\ UNCHANGED <<ingResult, ingStop>>

\* the inner loop moves on: next signature of the page, or before is set to
\* the last signature of the page and the next page is fetched
IngestAdvance ==
    /\ IF ingI < Len(ingPage)
       THEN /\ ingI' = ingI + 1
            /\ UNCHANGED <<ingPc, ingBefore, ingPage>>
       ELSE /\ ingPc' = "fetch"
            /\ ingBefore' = ingPage[Len(ingPage)]
            /\ ingPage' = <<>>
            /\ ingI' = 0
    /\ UNCHANGED <<ingResult, ingStop>>

\* the error of Service.Create is dropped and the loop goes on
CreateFailed_swallowed ==
    /\ IngestAdvance
    /\ UNCHANGED store

\* createSalesRecord when Service.Create returns an error: SaveNewSales
\* returns the error
CreateFailed ==
    /\ IngestEnd("err", "create")
    /\ UNCHANGED store

\* the body of the inner loop for signatures[i]
IngestEntry ==
    /\ ingPc = "entry"
    /\ LET sig == ingPage[ingI]
           blockTime == chain[sig].blockTime
           tx == chain[sig].tx
           m == isMarketplaceSale(tx.keys)
       IN  \/ /\ IngestEnd("err", "get")               \* reader.Get failed
              /\ UNCHANGED <<store, creates, ingHist>>
           \/ /\ isCaughtUp(sig)
              /\ IngestEnd("ok", "dup")
              /\ UNCHANGED <<store, creates, ingHist>>
           \/ /\ ~isCaughtUp(sig)
              /\ \/ /\ IngestEnd("panic", "tx")        \* getTransaction left tx nil
                    /\ UNCHANGED <<store, creates, ingHist>>
                 \/ /\ ~tx.meta \/ m = ""              \* no usable meta, or no marketplace
                    /\ IngestAdvance
                    /\ UNCHANGED <<store, creates, ingHist>>
                 \/ /\ tx.meta /\ m # ""
                    /\ \/ /\ IngestEnd("panic", "account")   \* GetAccountInfo left out nil
                          /\ UNCHANGED <<store, creates, ingHist>>
                       \/ /\ IngestEnd("err", "decode")      \* borsh decode failed
                          /\ UNCHANGED <<store, creates, ingHist>>
                       \/ /\ IsNoise(tx.price, m)
                          /\ IngestAdvance
                          /\ UNCHANGED <<store, creates, ingHist>>
                       \/ /\ ~IsNoise(tx.price, m)
                          /\ creates' = Observe("ingest", CreateCalled(sig), creates)
                          /\ \/ /\ CreateFailed
                                /\ ingHist' = Observe("ingest",
                                                  [ingHist EXCEPT !.failed = TRUE], ingHist)
                             \/ /\ InsertAccepts(sig)
                                /\ store' = Insert(Record(sig, blockTime, m, tx.price))
                                /\ ingHist' = IF obs \cap {"ingest", "runs"} # {}
                                               THEN [ingHist EXCEPT !.created = TRUE]
                                               ELSE ingHist
                                /\ IngestAdvance
    /\ UNCHANGED <<chain, ingUntil, pubVars, obs, up, qp, rt, px, api, clock>>

\* ------------------------------------------------------------- publication
MediaIds == {"m1"}           \* media_id_string values the channel hands out
\* ids the channel gives to posts; one where only the progress is followed
TweetIds == IF "progress" \in obs THEN {"t1"} ELSE {"t1", "t2"}

\* the WHERE clause without publishDetails IS NULL
Eligible_published(recs) == {r \in recs : r.saleTime >= Cutoff}

\* the records the WHERE clause of getOldestNonPublished lets through
Eligible(recs) == {r \in recs : r.publishDetails.null /\ r.saleTime >= Cutoff}

\* the query without its WHERE clause
ListOldestNonPublished_any == {<<r>> : r \in OldestOf(store)}

\* reader.List for getOldestNonPublished: the possible results, each a
\* sequence of at most LIMIT 1 rows; none when no record matches (ErrNotFound)
ListOldestNonPublished == {<<r>> : r \in OldestOf(Eligible(store))}

\* the document is taken out of the collection
UpdateFields_drop(id, updates) == store \ Get(id)

\* only the first field of the SET list is written
UpdateFields_first(id, updates) ==
    IF Get(id) = {} THEN store
    ELSE LET r == CHOOSE r \in Get(id) : TRUE
         IN  (store \ {r}) \cup {[r EXCEPT !.twitterMediaId = updates.twitterMediaId]}

\* writer.UpdateFields: UPDATE .. SET field = value, .. WHERE id = $q_id LIMIT 1
UpdateFields(id, updates) ==
    IF Get(id) = {} THEN store
    ELSE LET r == CHOOSE r \in Get(id) : TRUE
         IN  (store \ {r}) \cup
                {[f \in DOMAIN r |-> IF f \in DOMAIN updates THEN updates[f] ELSE r[f]]}

\* the run returns (or panics): PublishNewSales is over and its locals are gone
PublishEnd(result, why) ==
    /\ pubPc' = "idle"
    /\ pubResult' = result
    /\ pubStop' = Observe("publish", why, pubStop)
    /\ pubSkip' = FALSE
    /\ pubOldest' = <<>>
    /\ pubMediaID' = ""
    /\ pubTweet' = ""
    /\ pubReset' = 0

\* PublishNewSales: getOldestNonPublished
PublishSelect ==
    /\ pubPc = "idle"
    /\ pubDid' = Observe("publish", {}, pubDid)
    /\ \/ PublishEnd("err", "list")                    \* reader.List failed
       \/ /\ ListOldestNonPublished = {}               \* sales.ErrNotFound
          /\ PublishEnd("ok", "notfound")
       \/ \E skipPublish \in BOOLEAN, oldestRes \in ListOldestNonPublished :
                   /\ pubSkip' = skipPublish
                   /\ pubPc' = "media"
                   /\ pubOldest' = <<oldestRes[1]>>
                   /\ pubResult' = "running"
                   /\ pubStop' = Observe("publish", "none", pubStop)
                   /\ UNCHANGED <<pubMediaID, pubTweet, pubReset>>
    /\ UNCHANGED <<chain, store, ingVars, creates, posted, obs, up, qp, rt, px, api, clock>>

\* all three steps are made whichever of them fails
MediaSteps_all(failedAt) == {"metadata", "download", "upload"}

\* processMetadataImage: the remote steps it makes when the step failedAt
\* fails ("none": when none does).  getImageURI fails when the request or the
\* decoding fails or the metadata has no string "image"; uploadImageTwitter
\* when INIT, an APPEND or FINALIZE is refused
MediaSteps(failedAt) ==
    IF failedAt = "metadata" THEN {"metadata"}
    ELSE IF failedAt = "download" THEN {"metadata", "download"}
    ELSE {"metadata", "download", "upload"}

\* PublishNewSales: processMetadataImage (getImageURI, downloadImage,
\* uploadImageTwitter), then the skipPublish return
PublishMedia ==
    /\ pubPc = "media"
    /\ \/ \E failedAt \in {"metadata", "download", "upload"} :
             /\ PublishEnd("err", failedAt)
             /\ pubDid' = Observe("publish", pubDid \cup MediaSteps(failedAt), pubDid)
       \/ \E mediaID \in MediaIds :
             /\ pubDid' = Observe("publish", pubDid \cup MediaSteps("none"), pubDid)
             /\ IF pubSkip
                THEN PublishEnd("ok", "skip")
                ELSE /\ pubPc' = "post"
                     /\ pubMediaID' = mediaID
                     /\ pubOldest' = <<[pubOldest[1] EXCEPT !.twitterMediaId = mediaID]>>
                     /\ UNCHANGED <<pubSkip, pubTweet, pubResult, pubStop, pubReset>>
    /\ UNCHANGED <<chain, store, ingVars, creates, posted, obs, up, qp, rt, px, api, clock>>

\* posted.max: the latest saleTime among the sales posted so far;
\* posted.late: some sale was posted after a sale with a later saleTime
\* (both under the recorder "posted");
\* posted.ids: the ids of the sales posted so far; posted.again: some sale was
\* posted when it had been posted before (both under the recorder "once")
Posted(rec) ==
    [max   |-> IF "posted" \in obs THEN Max(posted.max, rec.saleTime) ELSE posted.max,
     late  |-> IF "posted" \in obs THEN posted.late \/ rec.saleTime < posted.max
               ELSE posted.late,
     ids   |-> IF "once" \in obs THEN posted.ids \cup {rec.id} ELSE posted.ids,
     again |-> IF "once" \in obs THEN posted.again \/ rec.id \in posted.ids
               ELSE posted.again]

\* the values of the X-Rate-Limit-Reset header, counted from the answer of the
\* channel (a reset in the past counts as 0); where time is not followed the
\* clock stands still and the reset instant is the present
ResetEpochs == IF "clock" \in obs THEN 0..MaxClock ELSE {clock}

\* the sleep is cut short
SleepOver_early(reset) == TRUE

\* time.Sleep(time.Until(reset)) has returned
SleepOver(reset) == clock >= reset

\* PublishNewSales: publishSaleTweet up to the answer of the channel
PublishPost ==
    /\ pubPc = "post"
    /\ \/ /\ PublishEnd("err", "post")          \* no answer, a non-2xx answer other
          /\ UNCHANGED <<pubDid, posted>>       \* than 429, or a reset that is no number
       \/ /\ \E epoch \in ResetEpochs :         \* 429 with X-Rate-Limit-Reset: sleep
                /\ pubPc' = "sleep"
                /\ pubReset' = epoch
          /\ UNCHANGED <<pubSkip, pubOldest, pubMediaID, pubTweet, pubResult, pubStop,
                         pubDid, posted>>
       \/ /\ PublishEnd("panic", "429")         \* 429 without X-Rate-Limit-Reset
          /\ UNCHANGED <<pubDid, posted>>
       \/ /\ pubDid' = Observe("publish", pubDid \cup {"post"}, pubDid)     \* 2xx: the channel has the post
          /\ posted' = Posted(pubOldest[1])
          /\ \/ PublishEnd("err", "tweetdecode")
             \/ \E id \in TweetIds :
                   /\ pubPc' = "record"
                   /\ pubTweet' = id
                   /\ UNCHANGED <<pubSkip, pubOldest, pubMediaID, pubResult, pubStop,
                                  pubReset>>
    /\ UNCHANGED <<chain, store, ingVars, creates, obs, up, qp, rt, px, api, clock>>

\* publishSaleTweet after the sleep of the 429 branch: the body is read and
\* the error "received non 200 response" is returned
PublishWake ==
    /\ pubPc = "sleep"
    /\ SleepOver(pubReset)
    /\ PublishEnd("err", "429")
    /\ clock' = 0
    /\ UNCHANGED <<chain, store, ingVars, creates, pubDid, posted, obs, up, qp, rt, px, api>>

\* time passes while the run sleeps
Tick ==
    /\ pubPc = "sleep"
    /\ clock < MaxClock
    /\ clock' = clock + 1
    /\ UNCHANGED <<chain, store, ingVars, creates, pubVars, obs, up, qp, rt, px, api>>

\* the creation time is written as well
PublishedFields_all(mediaId, tweet) ==
    [twitterMediaId |-> mediaId, publishDetails |-> PublishDetails(tweet),
     createdAt |-> "later"]

\* PublishNewSales: the updates map handed to writer.UpdateFields
PublishedFields(mediaId, tweet) ==
    [twitterMediaId |-> mediaId, publishDetails |-> PublishDetails(tweet)]

\* PublishNewSales: the final writer.UpdateFields
PublishRecord ==
    /\ pubPc = "record"
    /\ \/ /\ PublishEnd("err", "update")        \* the query failed
          /\ UNCHANGED <<store, pubDid>>
       \/ /\ store' = UpdateFields(pubOldest[1].id, PublishedFields(pubMediaID, pubTweet))
          /\ pubDid' = Observe("publish", pubDid \cup {"update"}, pubDid)
          /\ PublishEnd("ok", "recorded")
    /\ UNCHANGED <<chain, ingVars, creates, posted, obs, up, qp, rt, px, api, clock>>

\* ------------------------------------------------ the exported Create call
\* Service.Create(rec): any caller may hand in a record; CreatedAt is set and
\* the record is inserted under its id.  Where only the calls of the gateway
\* or the sleep of the post step are followed, the sale time plays no part
\* and is the same for all records; where the progress of publication is
\* followed the sale times lie around the cutoff
ApiTimes ==
    IF obs \cap {"api", "clock"} # {} THEN {Cutoff}
    ELSE IF "progress" \in obs THEN Times \cap {Cutoff - 1, Cutoff, Cutoff + 1}
    ELSE Times

\* the media ids of the records handed in; where the progress of publication
\* is followed no record comes with one
ApiMediaIds == IF "progress" \in obs THEN {""} ELSE {"", "m0"}

ApiRecords ==
    {[Record(id, t, "Magic Eden", 60000000) EXCEPT !.twitterMediaId = mid] :
        id \in Ids, t \in ApiTimes, mid \in ApiMediaIds}

\* api: the operation, the id it was called with and whether it returned an
\* error; for reader.List also whether the error was ErrNotFound, the limit
\* of the condition, the number of rows returned and the number of records
\* that satisfy the condition
NoCall ==
    [op |-> "none", id |-> 0, err |-> FALSE, notFound |-> FALSE, limit |-> 0,
     rows |-> 0, matched |-> 0]

Called(op, id, err) ==
    Observe("api", [NoCall EXCEPT !.op = op, !.id = id, !.err = err], api)

\* a call that returns an error changes nothing but the record of the calls:
\* it is followed only where the calls are recorded
Create ==
    /\ \E rec \in ApiRecords :
          /\ InsertAccepts(rec.id) \/ "api" \in obs
          /\ store' = Insert([rec EXCEPT !.createdAt = "now"])
          /\ api' = Called("create", rec.id, ~InsertAccepts(rec.id))
    /\ UNCHANGED <<chain, ingVars, creates, pubVars, obs, up, qp, rt, px, clock>>

\* ------------------------------------------- the exported UpdateFields call
\* the update lists handed in: none, or the two fields of a publication
UpdateInputs ==
    { <<>>,
      [twitterMediaId |-> "m1", publishDetails |-> PublishDetails("t1")] }

\* writer.UpdateFields(id, updates...): nil at once for an empty list; the
\* error of cluster.Query is the only error returned
Update ==
    /\ \E id \in Ids, updates \in UpdateInputs :
          \/ /\ updates # <<>>                         \* the query failed
             /\ store' = store
             /\ api' = Called("update", id, TRUE)
          \/ /\ store' = UpdateFields(id, updates)
             /\ api' = Called("update", id, FALSE)
    /\ UNCHANGED <<chain, ingVars, creates, pubVars, obs, up, qp, rt, px, clock>>

\* ---------------------------------------------------------------- retryRPC
\* retryRPC(do, retries, timeout).  Time is counted in ticks of 5 seconds from
\* the creation of the timer.  rt keeps the position in the function ("idle",
\* "select", "do", "sleep", "done"), its arguments, the local retry, the time
\* now, and as history: the number of calls of do, when the last call started
\* and ended, what it returned ("nil", "429", "other") and what retryRPC
\* returned ("ok", "timeout", "unexpected", "exhausted").
RetryIdle ==
    [pc |-> "idle", retries |-> 0, timeout |-> 0, retry |-> 0, now |-> 0,
     calls |-> 0, started |-> 0, ended |-> 0, last |-> "none", result |-> "none"]

\* every failure is taken for a rate limit
rateLimited_any(err) == err # "nil"

\* strings.Contains(err.Error(), "429")
rateLimited(err) == err = "429"

\* the loop admits one turn more
MoreAttempts_extra(retry, retries) == retry <= retries

\* the loop condition, retry < retries
MoreAttempts(retry, retries) == retry < retries

\* case <-timer.C: whether the timer has delivered at time now; at the very
\* instant of the timeout either is possible
TimerReady(now, timeout) ==
    IF now > timeout THEN {TRUE}
    ELSE IF now = timeout THEN {TRUE, FALSE}
    ELSE {FALSE}

\* the call: the timer is created
RetryStart ==
    /\ rt.pc = "idle"
    /\ \E retries \in 0..MaxRetries, timeout \in 1..MaxTimeout :
          rt' = [RetryIdle EXCEPT !.pc = "select", !.retries = retries,
                                  !.timeout = timeout]
    /\ UNCHANGED <<chain, store, ingVars, creates, pubVars, obs, up, qp, px, api, clock>>

\* the loop condition and the select: leave with "error exceeded retries",
\* leave with the timeout error, or call do
RetrySelect ==
    /\ rt.pc = "select"
    /\ IF ~MoreAttempts(rt.retry, rt.retries)
       THEN rt' = [rt EXCEPT !.pc = "done", !.result = "exhausted"]
       ELSE \E fired \in TimerReady(rt.now, rt.timeout) :
               IF fired
               THEN rt' = [rt EXCEPT !.pc = "done", !.result = "timeout"]
               ELSE rt' = [rt EXCEPT !.pc = "do", !.calls = @ + 1, !.started = rt.now]
    /\ UNCHANGED <<chain, store, ingVars, creates, pubVars, obs, up, qp, px, api, clock>>

\* do() returns after some time; the switch on its error
RetryDo ==
    /\ rt.pc = "do"
    /\ \E d \in 0..MaxDo, err \in {"nil", "429", "other"} :
          LET t == rt.now + d
              r == [rt EXCEPT !.now = t, !.ended = t, !.last = err]
          IN  IF err = "nil"
              THEN rt' = [r EXCEPT !.pc = "done", !.result = "ok"]
              ELSE IF ~rateLimited(err)
                   THEN rt' = [r EXCEPT !.pc = "done", !.result = "unexpected"]
                   ELSE rt' = [r EXCEPT !.pc = "sleep", !.retry = @ + 1]
    /\ UNCHANGED <<chain, store, ingVars, creates, pubVars, obs, up, qp, px, api, clock>>

\* time.Sleep(time.Second * 10)
RetrySleep ==
    /\ rt.pc = "sleep"
    /\ rt' = [rt EXCEPT !.pc = "select", !.now = @ + Backoff]
    /\ UNCHANGED <<chain, store, ingVars, creates, pubVars, obs, up, qp, px, api, clock>>

\* ----------------------------------------------------------- toSolPriceStr
\* a Go string is a sequence of one-character strings
DigitChars == <<"0", "1", "2", "3", "4", "5", "6", "7", "8", "9">>

\* strconv.FormatUint(price, 10)
RECURSIVE FormatUint(_)
FormatUint(n) ==
    IF n < 10 THEN <<DigitChars[n + 1]>>
    ELSE Append(FormatUint(n \div 10), DigitChars[(n % 10) + 1])

\* strings.Repeat("0", n)
Repeat0(n) == [i \in 1..n |-> "0"]

reverseArr(arr) == [i \in 1..Len(arr) |-> arr[Len(arr) - i + 1]]

\* strings.Join(arr, "")
RECURSIVE Join(_)
Join(arr) == IF arr = <<>> THEN <<>> ELSE Head(arr) \o Join(Tail(arr))

\* the threshold is that of the noise filter
BelowThreshold_high(price) == price < SolseaMinimum

\* price < 40000000
BelowThreshold(price) == price < PriceThreshold

\* toSolPriceStr: arr holds the characters of the decimal, last first.  With at
\* most 9 characters "." and the missing zeros are appended and a "0" put in
\* front; with more, the loop puts "." in the place of arr[lamportTensInSol-1]
toSolPriceStr(price) ==
    IF BelowThreshold(price) THEN <<>>
    ELSE LET str == FormatUint(price)
             arr == [i \in 1..Len(str) |-> <<str[Len(str) - i + 1]>>]
             priceStr == Join(reverseArr(
                             Append(arr, <<".">> \o Repeat0(lamportTensInSol - Len(arr)))))
             dotted == [i \in 1..Len(arr) |->
                           IF i = lamportTensInSol THEN <<".">> ELSE arr[i]]
         IN  IF Len(arr) <= lamportTensInSol /\ Len(priceStr) > 0 /\ priceStr[1] = "."
             THEN <<"0">> \o priceStr
             ELSE Join(reverseArr(dotted))

\* publishSaleTweet: the lines of saleText for a record with this price, a
\* marketplace and a sale time
SaleText(price) ==
    <<[label |-> "New Bromato Sale!", value |-> <<>>],
      [label |-> "Name: ",            value |-> <<>>]>>
    \o (IF toSolPriceStr(price) # <<>>
        THEN <<[label |-> "Price: ", value |-> toSolPriceStr(price)]>>
        ELSE <<>>)
    \o <<[label |-> "Marketplace: ",  value |-> <<>>],
         [label |-> "Sale Time: ",    value |-> <<>>],
         [label |-> "Transaction: ",  value |-> <<>>],
         [label |-> "#Bromato",       value |-> <<>>]>>

\* the prices handed to toSolPriceStr
Prices ==
    {m * 9876543 : m \in 0..MaxPrices}
        \cup {5000000, 39999999, 40000000, 123456789, 999999999, 1000000000,
              1234567890, 2000000001}

\* px: the price, the string toSolPriceStr made of it and the lines of the post
PriceIdle == [pc |-> "idle", price |-> 0, out |-> <<>>, text |-> <<>>]

PriceFormat ==
    /\ px.pc = "idle"
    /\ px' = [px EXCEPT !.pc = "formatted", !.out = toSolPriceStr(px.price)]
    /\ UNCHANGED <<chain, store, ingVars, creates, pubVars, obs, up, qp, rt, api, clock>>

PriceText ==
    /\ px.pc = "formatted"
    /\ px' = [px EXCEPT !.pc = "composed", !.text = SaleText(px.price)]
    /\ UNCHANGED <<chain, store, ingVars, creates, pubVars, obs, up, qp, rt, api, clock>>

\* ------------------------------------------------------- uploadImageTwitter
\* the image is followed by its length alone: a segment is the stretch of the
\* image from byte `from`, `len` bytes long.  The lengths lie around the
\* multiples of the segment size
ImageSizes ==
    {n \in {k * maxChunkSizeInBytes + d : k \in 0..MaxSegments, d \in {-1, 0, 1}} :
        n >= 0}

\* up.pc: "idle", "init", "append", "finalize", "done"; size: len(image) at
\* the call; rest: len(image) in uploadImageAppend; i: the segment index;
\* media: the mediaID local; sent: history, the requests sent so far in order;
\* last: the answer to the latest request ("2xx", "non2xx", or "error" when
\* the request got no answer); result, out: what uploadImageTwitter returned
UploadIdle ==
    [pc |-> "idle", size |-> 0, rest |-> 0, i |-> 0, media |-> "", sent |-> <<>>,
     last |-> "none", result |-> "none", out |-> ""]

\* the whole rest of the image goes into one segment
ChunkLen_whole(rest) == rest

\* uploadImageAppend: len(image[:min(len(image), maxChunkSizeInBytes)])
ChunkLen(rest) == Min(rest, maxChunkSizeInBytes)

\* the media id obtained from INIT is returned with the error
Refused_media(u, answer) ==
    [u EXCEPT !.pc = "done", !.last = answer, !.result = "err", !.out = u.media]

\* a request failed or was answered outside 2xx: the error goes up through
\* uploadImageTwitter, which returns "" with it
Refused(u, answer) ==
    [u EXCEPT !.pc = "done", !.last = answer, !.result = "err", !.out = ""]

\* uploadImageTwitter is called with an image
UploadStart ==
    /\ up.pc \in {"idle", "done"}
    /\ \E n \in ImageSizes :
          up' = [UploadIdle EXCEPT !.pc = "init", !.size = n, !.rest = n]
    /\ UNCHANGED <<chain, store, ingVars, creates, pubVars, obs, rt, px, api, clock, qp>>

\* uploadImageInit: the INIT request with total_bytes; media_id_string of the
\* answer is taken as it is, also when the answer has none
UploadInit ==
    /\ up.pc = "init"
    /\ LET u == [up EXCEPT !.sent = Append(@, [cmd |-> "INIT", total |-> up.size])]
       IN  \/ \E answer \in {"error", "non2xx"} : up' = Refused(u, answer)
           \/ up' = Refused(u, "2xx")   \* the body does not decode
           \/ \E mediaID \in MediaIds \cup {""} :
                 up' = [u EXCEPT !.pc = IF u.rest > 0 THEN "append" ELSE "finalize",
                                 !.last = "2xx", !.media = mediaID]
    /\ UNCHANGED <<chain, store, ingVars, creates, pubVars, obs, rt, px, api, clock, qp>>

\* uploadImageAppend: one turn of the loop, which goes on while len(image) > 0
UploadAppend ==
    /\ up.pc = "append"
    /\ LET chunk == ChunkLen(up.rest)
           u == [up EXCEPT !.sent = Append(@, [cmd |-> "APPEND", index |-> up.i,
                                               from |-> up.size - up.rest,
                                               len |-> chunk])]
       IN  \/ up' = Refused(up, up.last)          \* the form or the request was not built
           \/ \E answer \in {"error", "non2xx"} : up' = Refused(u, answer)
           \/ up' = [u EXCEPT !.last = "2xx", !.i = @ + 1, !.rest = @ - chunk,
                               !.pc = IF up.rest - chunk > 0 THEN "append" ELSE "finalize"]
    /\ UNCHANGED <<chain, store, ingVars, creates, pubVars, obs, rt, px, api, clock, qp>>

\* uploadImageFinalize, and the return of uploadImageTwitter
UploadFinalize ==
    /\ up.pc = "finalize"
    /\ LET u == [up EXCEPT !.sent = Append(@, [cmd |-> "FINALIZE"])]
       IN  \/ \E answer \in {"error", "non2xx"} : up' = Refused(u, answer)
           \/ up' = [u EXCEPT !.pc = "done", !.last = "2xx", !.result = "ok",
                               !.out = u.media]
    /\ UNCHANGED <<chain, store, ingVars, creates, pubVars, obs, rt, px, api, clock, qp>>

\* ------------------------------------------------------- GetActivityHistory
\* a nil *time.Time
NoBefore == 0

\* the TradingType constants, and a value that is none of them
Sale == "SALE"
Listing == "LISTING"
Offer == "OFFER"
TradingTypes == {Sale, Listing, Offer, "BID"}

\* a nil *QueryParam
NilParam == [nil |-> TRUE, Limit |-> 0, TradingTypes |-> <<>>, Before |-> NoBefore]

\* the *QueryParam values a caller hands in: nil, or a limit about 0 or about
\* 20, up to MaxTypes trading types and a Before that is nil or an instant
QueryParams ==
    {NilParam} \cup
    [nil : {FALSE},
     Limit : ((0 - MaxOver)..MaxOver) \cup ((20 - MaxOver)..(20 + MaxOver)),
     TradingTypes : UNION {[1..n -> TradingTypes] : n \in 0..MaxTypes},
     Before : {NoBefore} \cup Times]

\* no call of GetActivityHistory
ParamIdle == [pc |-> "idle", given |-> NilParam, now |-> 0, err |-> FALSE,
              params |-> NilParam, sent |-> <<>>, result |-> "none"]

\* the calls of GetActivityHistory, each with the instant time.Now() of its
\* configureParams
ParamCalls(recorders) ==
    IF "params" \in recorders
    THEN {[ParamIdle EXCEPT !.pc = "call", !.given = q, !.now = t] :
             q \in QueryParams, t \in Times}
    ELSE {ParamIdle}

defaultQueryParam ==
    [nil |-> FALSE, Limit |-> 20, TradingTypes |-> <<Sale, Listing, Offer>>,
     Before |-> NoBefore]

\* only the number of trading types is looked at
validateTradingTypes_count(q) ==
    Len(q.TradingTypes) < 1 \/ Len(q.TradingTypes) > 3

\* QueryParam.validateTradingTypes: TRUE when it returns an error
validateTradingTypes(q) ==
    \/ Len(q.TradingTypes) < 1
    \/ Len(q.TradingTypes) > 3
    \/ \E i \in 1..Len(q.TradingTypes) : q.TradingTypes[i] \notin {Sale, Listing, Offer}

\* configureParams: the error returned and *params after the call (the nil
\* branch assigns to the local pointer only)
configureParams(params, now) ==
    IF params.nil THEN [err |-> FALSE, params |-> params]
    ELSE IF validateTradingTypes(params) THEN [err |-> TRUE, params |-> params]
    ELSE [err |-> FALSE,
          params |-> [params EXCEPT
                         !.Before = IF @ # NoBefore /\ @ > now THEN NoBefore ELSE @,
                         !.Limit = IF @ = 0 THEN 20 ELSE Max(Min(@, 20), 1)]]

\* QueryParam.toActivityHistoryPayload
toActivityHistoryPayload(q, collectionID) ==
    [id |-> collectionID, resourceType |-> "COLLECTION", tradingTypes |-> q.TradingTypes,
     before |-> q.Before, limit |-> q.Limit, NoForeignListing |-> TRUE]

\* Client.GetActivityHistory: nil params are replaced by the defaults, the
\* params are configured, and unless that fails the payload is posted; a
\* failed request and a status other than 200 return an error, an answer
\* that does not decode ends the process (log.Fatalf)
GetActivityHistory ==
    /\ qp.pc = "call"
    /\ LET params == IF qp.given.nil THEN defaultQueryParam ELSE qp.given
           c == configureParams(params, qp.now)
           q == [qp EXCEPT !.pc = "done", !.err = c.err, !.params = c.params]
       IN  IF c.err
           THEN qp' = [q EXCEPT !.result = "err"]
           ELSE \E result \in {"err", "fatal", "history"} :
                   qp' = [q EXCEPT
                             !.sent = <<toActivityHistoryPayload(c.params, "bad-bromatoes")>>,
                             !.result = result]
    /\ UNCHANGED <<chain, store, ingVars, creates, pubVars, obs, up, rt, px, api, clock>>


\* -------------------------------------------------------------- reader.List
\* the conditions handed to List: none, or the WHERE clause of
\* getOldestNonPublished; ORDER BY saleTime ASC in both
ListConditions == {"all", "unpublished"}

Matching(cond) == IF cond = "all" THEN store ELSE Eligible(store)

\* the rows the query can stream for the records recs that satisfy the
\* condition: all of them in ascending saleTime, cut after limit rows when
\* limit > 0
Rows(recs, lim) ==
    LET n == IF lim > 0 THEN Min(lim, Cardinality(recs)) ELSE Cardinality(recs)
    IN  {s \in [1..n -> recs] :
            /\ \A i, j \in 1..n : i < j => (s[i] # s[j] /\ s[i].saleTime <= s[j].saleTime)
            /\ \A r \in recs \ {s[i] : i \in 1..n} :
                  \A i \in 1..n : s[i].saleTime <= r.saleTime}

\* the rows are returned as they are
ListAnswer_empty(rows) == [rows |-> rows, err |-> "nil"]

\* List after the rows are read: ErrNotFound for no row
ListAnswer(rows) ==
    IF Len(rows) = 0 THEN [rows |-> <<>>, err |-> "ErrNotFound"]
    ELSE [rows |-> rows, err |-> "nil"]

\* reader.List(condition)
List ==
    /\ \E cond \in ListConditions, lim \in 0..MaxLimit :
          LET call == [NoCall EXCEPT !.op = "list", !.limit = lim,
                                     !.matched = Cardinality(Matching(cond))]
          IN  \/ api' = Observe("api", [call EXCEPT !.err = TRUE], api)
                    \* the query or the decoding of a row failed
              \/ \E rows \in Rows(Matching(cond), lim) :
                    LET a == ListAnswer(rows)
                    IN  api' = Observe("api",
                                   [call EXCEPT !.err = a.err # "nil",
                                                !.notFound = a.err = "ErrNotFound",
                                                !.rows = Len(a.rows)], api)
    /\ UNCHANGED <<chain, store, ingVars, creates, pubVars, obs, up, qp, rt, px, clock>>

InitAll(recorders, price) ==
    /\ obs = recorders
    /\ chain = <<>>
    /\ store = {}
    /\ ingPc = "idle"
    /\ ingUntil = NoSig
    /\ ingBefore = NoSig
    /\ ingPage = <<>>
    /\ ingI = 0
    /\ ingResult = "none"
    /\ ingStop = "none"
    /\ ingHist = [prev |-> "none", prevSteady |-> FALSE, steady |-> FALSE,
                  created |-> FALSE, failed |-> FALSE]
    /\ creates = [called |-> {}, twice |-> FALSE, onStored |-> FALSE]
    /\ pubPc = "idle"
    /\ pubSkip = FALSE
    /\ pubOldest = <<>>
    /\ pubMediaID = ""
    /\ pubTweet = ""
    /\ pubResult = "none"
    /\ pubStop = "none"
    /\ pubDid = {}
    /\ posted = [max |-> 0, late |-> FALSE, ids |-> {}, again |-> FALSE]
    /\ pubReset = 0
    /\ clock = 0
    /\ rt = RetryIdle
    /\ px = [PriceIdle EXCEPT !.price = price]
    /\ api = NoCall
    /\ up = UploadIdle
    /\ qp \in ParamCalls(recorders)

InitWith(recorders) == InitAll(recorders, 0)

Ingest == IngestStart \/ IngestFetch \/ IngestEntry

Publish == PublishSelect \/ PublishMedia \/ PublishPost \/ PublishWake \/ PublishRecord

\* the two loops over one store and the growing feed
Init == InitWith({"posted"})

Next == ChainAppend \/ Ingest \/ Publish

Spec == Init /\ [][Next]_vars

\* the two loops over one store, the records followed from their creation
InitBoth == InitWith({"both"})

SpecBoth == InitBoth /\ [][Next]_vars

\* ingestion alone
InitIngest == InitWith({"ingest"})

NextIngest == ChainAppend \/ Ingest

SpecIngest == InitIngest /\ [][NextIngest]_vars

\* ingestion alone, from a source that does not keep its pages in order
InitUnordered == InitWith({"unordered"})

SpecUnordered == InitUnordered /\ [][NextIngest]_vars

\* ingestion alone, over marketplace transactions around the Solsea minimum
InitNoise == InitWith({"noise"})

SpecNoise == InitNoise /\ [][NextIngest]_vars

\* ingestion alone, a run that has started going on to its next step: the
\* run is one sequential call, its sleeps are finite and its remote calls
\* return (with a result or an error)
InitTerm == InitWith({"term"})

SpecTerm ==
    InitTerm /\ [][NextIngest]_vars /\ WF_vars(IngestFetch) /\ WF_vars(IngestEntry)

\* ingestion alone, the runs compared in pairs
InitRuns == InitWith({"runs"})

SpecRuns == InitRuns /\ [][NextIngest]_vars

\* publication over a store filled through the exported Create
InitPublish == InitWith({"publish"})

NextPublish == Create \/ Publish

SpecPublish == InitPublish /\ [][NextPublish]_vars

\* publication over a store filled through the exported Create, the posts of
\* each sale counted
InitOnce == InitWith({"once"})

SpecOnce == InitOnce /\ [][NextPublish]_vars

\* publication runs that recur for ever (the periodic loop that calls
\* PublishNewSales with skipPublish unset), a run that has started going on
\* to its next step, and each step of a run succeeding again and again: the
\* selection, the media steps, the post and the update
PublishFair ==
    /\ WF_vars(Publish)
    /\ SF_vars(PublishSelect /\ pubPc' = "media" /\ ~pubSkip')
    /\ SF_vars(PublishMedia /\ pubPc' = "post")
    /\ SF_vars(PublishPost /\ pubPc' = "record")
    /\ SF_vars(PublishRecord /\ pubResult' = "ok")

InitProgress == InitWith({"progress"})

SpecProgress == InitProgress /\ [][NextPublish]_vars /\ PublishFair

\* publication with the wall clock followed
InitRate == InitWith({"clock"})

NextRate == Create \/ Publish \/ Tick

SpecRate == InitRate /\ [][NextRate]_vars

\* the store gateway alone, under calls of Create, UpdateFields and List
InitStore == InitWith({"api"})

NextStore == Create \/ Update \/ List

SpecStore == InitStore /\ [][NextStore]_vars

\* one call of retryRPC
InitRetry == InitWith({})

NextRetry == RetryStart \/ RetrySelect \/ RetryDo \/ RetrySleep

SpecRetry == InitRetry /\ [][NextRetry]_vars

\* one upload of an image after the other
InitUpload == InitWith({})

NextUpload == UploadStart \/ UploadInit \/ UploadAppend \/ UploadFinalize

SpecUpload == InitUpload /\ [][NextUpload]_vars

\* calls of GetActivityHistory with any params
InitParams == InitWith({"params"})

NextParams == GetActivityHistory

SpecParams == InitParams /\ [][NextParams]_vars

\* one call of toSolPriceStr and the text of the post
InitPrice == \E price \in Prices : InitAll({}, price)

NextPrice == PriceFormat \/ PriceText

SpecPrice == InitPrice /\ [][NextPrice]_vars

\* ================================================================== claims

\* the signature at position i of the feed resolves to a recognized
\* marketplace sale that the noise filter lets through
IsSale(i) ==
    LET tx == chain[i].tx
        m == isMarketplaceSale(tx.keys)
    IN  tx.meta /\ m # "" /\ ~IsNoise(tx.price, m)

\* the ingestion run made a step
IngestStepped == <<ingPc, ingI, ingResult>>' # <<ingPc, ingI, ingResult>>

UniqueIds == \A r1, r2 \in store : r1.id = r2.id => r1 = r2

\* C1: when a run has returned nil (and the feed did not change while it
\* ran), every signature of the feed newer than the run's until that is a
\* recognized, non-noise marketplace sale has a record in the store.
C1_NoMissedSale ==
    (ingPc = "idle" /\ ingResult = "ok" /\ ingHist.steady) =>
        \A i \in 1..Len(chain) :
            (i > ingUntil /\ IsSale(i)) => i \in StoreIds

C4_StopAtFirstDuplicate ==
    [][ ( /\ ingPc = "entry"
          /\ IngestStepped
          /\ ingPage[ingI] \in StoreIds
          /\ ~(ingResult' = "err" /\ ingStop' = "get") )
        => ( /\ ingPc' = "idle"
             /\ ingResult' = "ok"
             /\ ingStop' = "dup"
             /\ store' = store
             /\ creates' = creates ) ]_vars

\* a run stopped at a duplicate and left a sale behind it uncreated
C4_Witness ==
    /\ ingPc = "idle" /\ ingResult = "ok" /\ ingStop = "dup"
    /\ ingHist.steady
    /\ \E i \in 1..Len(chain) : i > ingUntil /\ IsSale(i) /\ i \notin StoreIds

\* the publication run made a step
PublishStepped == pubVars' # pubVars

\* the stored record the run has selected
Selected == {r \in store : pubOldest # <<>> /\ r.id = pubOldest[1].id}

\* C5: the step that selects takes one record; it is in the store, has null
\* publishDetails and a saleTime at or after the cutoff, and no such record
\* of the store has an earlier saleTime.
C5_SelectsOldestEligible ==
    [][ (pubPc = "idle" /\ pubPc' = "media")
        => ( /\ Len(pubOldest') = 1
             /\ pubOldest'[1] \in store
             /\ pubOldest'[1].publishDetails.null
             /\ pubOldest'[1].saleTime >= Cutoff
             /\ \A q \in store :
                   (q.publishDetails.null /\ q.saleTime >= Cutoff)
                       => pubOldest'[1].saleTime <= q.saleTime ) ]_vars

\* the older of two unpublished records is selected while a record from
\* before the cutoff waits unpublished
C5_Witness ==
    /\ pubPc = "media"
    /\ \E q \in store : q.publishDetails.null /\ q.saleTime > pubOldest[1].saleTime
    /\ \E q \in store : q.publishDetails.null /\ q.saleTime < Cutoff

\* C6: whenever a run selects a record, uploads its media or posts it, the
\* stored record has null publishDetails: a published record is not selected
\* again and nothing more is uploaded or posted for it.
C6_PublishedNeverReselected ==
    [][ PublishStepped =>
          /\ pubPc' # "idle" => \A r \in store : r.id = pubOldest'[1].id
                                    => r.publishDetails.null
          /\ pubPc \in {"media", "post"} => \A r \in Selected : r.publishDetails.null
      ]_vars

\* a later run works on another record while a published, otherwise
\* eligible, older record is in the store
C6_Witness ==
    /\ pubPc = "post"
    /\ \E r \in store : /\ ~r.publishDetails.null
                        /\ r.saleTime >= Cutoff
                        /\ r.saleTime <= pubOldest[1].saleTime

\* C7: no sale is posted after a sale with a later saleTime has been posted.
C7_PostedOldestFirst == ~posted.late

\* C8: when the stored record of the selection has a non-empty mediaId, the
\* run fetches no metadata, downloads no image and uploads nothing, and
\* posts with the stored mediaId.
C8_NoUploadWhenMediaIdStored ==
    \A r \in Selected :
        (pubPc \in {"post", "record"} /\ r.twitterMediaId # "")
            => /\ pubDid \cap {"metadata", "download", "upload"} = {}
               /\ pubMediaID = r.twitterMediaId

\* C9: a run that ends at a failed metadata resolution, download, upload or
\* post returns an error and leaves the store as it was, the selected record
\* with null publishDetails; publishDetails is written only by the step that
\* follows a successful post.
C9_FailedPublishReturnsError ==
    [][ PublishStepped =>
          /\ (pubPc \in {"media", "post"} /\ pubPc' = "idle" /\ pubStop' # "skip")
                => ( /\ pubResult' = "err"
                     /\ store' = store
                     /\ \A r \in Selected : r.publishDetails.null )
          /\ pubPc # "record" => store' = store
      ]_vars

\* C10: the step that ends a successful publish changes exactly the selected
\* record, setting publishDetails {id of the post, twitter, time, success}
\* and the mediaId that was attached to the post; no other step of the run
\* writes to the store.
C10_SingleUpdateOfBothFields ==
    [][ PublishStepped =>
          /\ (pubPc = "record" /\ pubPc' = "idle" /\ pubResult' = "ok")
                => \E r \in store :
                      /\ r.id = pubOldest[1].id
                      /\ store' = (store \ {r}) \cup
                            {[r EXCEPT
                                !.twitterMediaId = pubOldest[1].twitterMediaId,
                                !.publishDetails =
                                    [null |-> FALSE, id |-> pubTweet,
                                     channel |-> "twitter", time |-> "now",
                                     success |-> TRUE]]}
          /\ (pubPc # "record" \/ pubResult' # "ok") => store' = store
      ]_vars

\* a publish has been recorded for a record that carried another mediaId,
\* next to a record that is still unpublished
C10_Witness ==
    /\ pubPc = "idle" /\ pubResult = "ok" /\ pubStop = "recorded"
    /\ \E r \in store : /\ ~r.publishDetails.null
                        /\ r.publishDetails.success
                        /\ r.twitterMediaId \in MediaIds
    /\ \E r \in store : r.publishDetails.null /\ r.twitterMediaId = "m0"

\* C11: a run that starts when no record of the store has null
\* publishDetails and a saleTime at or after the cutoff (the query itself
\* answering) returns nil at once: no metadata is fetched, nothing is
\* downloaded, uploaded or posted, and the store is not written.
C11_NotFoundEndsQuietly ==
    [][ ( /\ PublishStepped
          /\ pubPc = "idle"
          /\ ~\E r \in store : r.publishDetails.null /\ r.saleTime >= Cutoff
          /\ ~(pubResult' = "err" /\ pubStop' = "list") )
        => ( /\ pubPc' = "idle"
             /\ pubResult' = "ok"
             /\ pubStop' = "notfound"
             /\ pubDid' = {}
             /\ posted' = posted
             /\ store' = store ) ]_vars

\* a run ended at NotFound over a store that holds a published record and an
\* unpublished one from before the cutoff
C11_Witness ==
    /\ pubPc = "idle" /\ pubResult = "ok" /\ pubStop = "notfound"
    /\ \E r \in store : ~r.publishDetails.null
    /\ \E r \in store : r.publishDetails.null /\ r.saleTime < Cutoff

\* C12: retryRPC returns nil right after the first call of do that returns
\* nil; it returns an error right after a call of do that fails without the
\* rate-limit signal, at the time that call ended; do is called again only
\* after a call that failed with the rate-limit signal; nothing happens after
\* the return.
C12_FailFast ==
    [][ rt' # rt =>
          /\ (rt.pc = "do" /\ rt'.last = "nil")
                => (rt'.pc = "done" /\ rt'.result = "ok")
          /\ (rt.pc = "do" /\ rt'.last = "other")
                => (rt'.pc = "done" /\ rt'.result = "unexpected" /\ rt'.now = rt'.ended)
          /\ (rt'.calls > rt.calls /\ rt.calls > 0) => rt.last = "429"
          /\ rt'.pc = "done" => rt'.calls = rt.calls
          /\ rt.pc # "done"
      ]_vars

\* the second call of do failed without the rate-limit signal while attempts
\* remained
C12_Witness ==
    /\ rt.pc = "done" /\ rt.result = "unexpected"
    /\ rt.calls = 2 /\ rt.calls < rt.retries

\* C13: when retryRPC returns after the timeout instant it returns the
\* timeout error (never success for a call of do that ended after that
\* instant), and no call of do starts after the timeout instant.
C13_TimeoutEnforced ==
    /\ (rt.pc = "done" /\ rt.now > rt.timeout) => rt.result = "timeout"
    /\ rt.calls > 0 => rt.started <= rt.timeout

\* C14: do is never called more than retries times; a call of do after the
\* first starts exactly the backoff interval after the call before it ended;
\* when retryRPC returns with no call of do having returned nil or an error
\* without the rate-limit signal, and before the timeout instant, it returns
\* the exhausted-retries error after exactly retries calls.
C14_Exhaustion ==
    [][ rt' # rt =>
          /\ rt'.calls <= rt'.retries
          /\ (rt'.calls > rt.calls /\ rt.calls > 0) => rt.now - rt.ended = Backoff
          /\ (rt'.pc = "done" /\ rt'.last \in {"none", "429"} /\ rt'.now < rt'.timeout)
                => (rt'.result = "exhausted" /\ rt'.calls = rt'.retries)
      ]_vars

\* every one of at least two attempts was rate limited and the timeout
\* instant lay ahead at the return
C14_Witness ==
    /\ rt.pc = "done" /\ rt.result = "exhausted"
    /\ rt.retries >= 2 /\ rt.calls = rt.retries
    /\ rt.now < rt.timeout

\* C15: an ingestion run that stops at a failed call of the activity source
\* or of the store gateway (the store listing, the signature page, the
\* lookup, the transaction fetch, the token-metadata fetch, its decoding, the
\* create) returns a non-nil error.
C15_SourceErrorsReturned ==
    (ingPc = "idle" /\ ingStop \in {"list", "fetch", "get", "tx", "account",
                                    "decode", "create"})
        => ingResult = "err"

\* the number f written with 9 digits, zeros in front
Pad9(f) == Repeat0(9 - Len(FormatUint(f))) \o FormatUint(f)

\* C16: for a price at or above the threshold toSolPriceStr returns the
\* decimal of price div 10^9 ("0" when that is zero), a point, and
\* price mod 10^9 written with exactly 9 digits.
C16_NineFractionalDigits ==
    (px.pc # "idle" /\ px.price >= PriceThreshold)
        => px.out = FormatUint(px.price \div 1000000000) \o <<".">>
                        \o Pad9(px.price % 1000000000)

\* the price line of the composed post, if it has one
PriceLines == {i \in 1..Len(px.text) : px.text[i].label = "Price: "}

\* C17: toSolPriceStr returns the empty string exactly for the prices below
\* the threshold, and the composed post has a price line, carrying that
\* string, exactly for the prices at or above it.
C17_PriceLineIffAboveThreshold ==
    /\ px.pc # "idle" => (px.out = <<>> <=> px.price < PriceThreshold)
    /\ px.pc = "composed" =>
          /\ PriceLines # {} <=> px.price >= PriceThreshold
          /\ \A i \in PriceLines : px.text[i].value = px.out /\ px.out # <<>>

\* a post was composed with the price line for a price just above the
\* threshold
C17_Witness ==
    /\ px.pc = "composed"
    /\ px.price >= PriceThreshold /\ px.price < SolseaMinimum
    /\ PriceLines # {}

\* C18: a run that got a 429 with a reset epoch does nothing until the clock
\* has reached the reset instant; its next step ends the run with an error,
\* with no post sent, the store unchanged and the selected record left with
\* null publishDetails.
C18_SleepsUntilReset ==
    [][ pubPc = "sleep" =>
          /\ pubPc' = "sleep" => pubVars' = pubVars
          /\ pubPc' # "sleep" =>
                /\ clock >= pubReset
                /\ pubPc' = "idle"
                /\ pubResult' = "err"
                /\ posted' = posted
                /\ store' = store
                /\ \A r \in Selected : r.publishDetails.null
      ]_vars

\* a run has slept up to the latest reset instant and is about to return,
\* the record it selected still unpublished in the store
C18_Witness ==
    /\ pubPc = "sleep"
    /\ pubReset = MaxClock /\ clock = pubReset
    /\ \E r \in Selected : r.publishDetails.null /\ r.saleTime >= Cutoff

\* C19: a call of Create with an id the store holds returns an error and
\* leaves the store as it was, whatever record is handed in and whoever
\* created the stored one; the store never holds two records with one id.
C19_InsertOnly ==
    [][ (api' # api /\ api'.op = "create") =>
          /\ api'.id \in StoreIds => (api'.err /\ store' = store)
          /\ UniqueIds'
      ]_vars

\* a create was refused for an id the store holds, next to another record
C19_Witness ==
    /\ api.op = "create" /\ api.err
    /\ api.id \in StoreIds
    /\ Cardinality(store) >= 2

\* C20: a call of UpdateFields changes at most one record, one with the id
\* of the call, and returns an error when the store holds no record with
\* that id.
C20_UpdateFailsOnNoMatch ==
    [][ (api' # api /\ api'.op = "update") =>
          /\ \A r \in store : r.id # api'.id => r \in store'
          /\ Cardinality(store' \ store) <= 1
          /\ api'.id \notin StoreIds => api'.err
      ]_vars

\* C21: a call of List that returns a nil error returns at least one record,
\* and at most limit records when limit > 0; a call made when no record
\* satisfies the condition returns an error (ErrNotFound when the query itself
\* answered), and ErrNotFound is returned only then.
C21_ListNeverEmpty ==
    api.op = "list" =>
        /\ ~api.err => (api.rows >= 1 /\ (api.limit > 0 => api.rows <= api.limit))
        /\ api.matched = 0 => api.err
        /\ api.notFound => (api.err /\ api.rows = 0 /\ api.matched = 0)

\* a call with a limit returned limit rows of a larger set
C21_Witness ==
    /\ api.op = "list" /\ ~api.err
    /\ api.limit > 0 /\ api.rows = api.limit
    /\ api.matched > api.limit

\* C22: over all ingestion and publication runs a stored record keeps its id,
\* its sale time, its creation time and the other fields ingestion filled in
\* (marketplace, price); no record leaves the store; a step changes nothing of
\* a record but twitterMediaId and publishDetails; and a record enters the
\* store with its creation time set, which is then never written again.
C22_RecordImmutable ==
    [][ /\ \A r \in store : \E q \in store' :
              /\ q.id = r.id
              /\ q.saleTime = r.saleTime
              /\ q.createdAt = r.createdAt
              /\ q.marketplace = r.marketplace
              /\ q.price = r.price
        /\ \A q \in store' : q.id \notin StoreIds =>
              q = Record(q.id, q.saleTime, q.marketplace, q.price)
      ]_vars

\* a published record next to one created after it was published
C22_Witness ==
    \E r, q \in store :
        /\ r.id < q.id
        /\ ~r.publishDetails.null /\ r.twitterMediaId = "m1"
        /\ q.publishDetails.null
        /\ r.createdAt = "now"

\* C23: whenever the post is about to be attempted, the media id the run holds
\* for the selected record is already stored on that record (so that a failed
\* post leaves it stored and a later run need not upload again).
C23_MediaIdStoredBeforePost ==
    pubPc = "post" =>
        \A r \in store : r.id = pubOldest[1].id => r.twitterMediaId = pubMediaID

\* C24: when a create fails during an ingestion run the run is over with an
\* error at that very step, so that it calls create no more; the failing step
\* leaves the store as it was, and no step of ingestion takes away or alters a
\* record, so every record the run created before the failure is still stored.
C24_NoRollback ==
    [][ /\ ingHist'.failed => (ingPc' = "idle" /\ ingResult' = "err")
        /\ (ingHist'.failed /\ ~ingHist.failed) =>
              (ingPc = "entry" /\ store' = store /\ ingPage[ingI] \notin StoreIds)
        /\ store \subseteq store'
      ]_vars

\* a run that created a record and then ended at a failed create
C24_Witness ==
    /\ ingPc = "idle" /\ ingResult = "err"
    /\ ingHist.failed /\ ingHist.created
    /\ store # {}

\* C25: within a page the run goes from one entry to the next in descending
\* block time, in whatever order the source handed the page over.
C25_PageProcessedNewestFirst ==
    [][ (ingPc = "entry" /\ ingPc' = "entry" /\ ingI' = ingI + 1) =>
            chain[ingPage'[ingI']].blockTime <= chain[ingPage[ingI]].blockTime
      ]_vars

Skippable(i) ==
    \/ ~chain[i].tx.meta
    \/ \A k \in DOMAIN chain[i].tx.keys :
          chain[i].tx.keys[k] \notin {MagicEdenAddr, SolseaAddr}

\* C27: a step of the run at an entry that is not stored and whose transaction
\* has no metadata, carries an error or touches no known marketplace address,
\* the calls of the step answering, creates nothing, calls create for
\* nothing, leaves the run running without an error, and moves to the next
\* entry of the page (to the next fetch after the last entry).
C27_SkipsWithoutStopping ==
    [][ ( /\ ingPc = "entry"
          /\ IngestStepped
          /\ ingPage[ingI] \notin StoreIds
          /\ Skippable(ingPage[ingI])
          /\ ingResult' \notin {"err", "panic"} ) =>
            /\ store' = store
            /\ creates' = creates
            /\ ingResult' = "running"
            /\ IF ingI < Len(ingPage)
               THEN ingPc' = "entry" /\ ingI' = ingI + 1 /\ ingPage' = ingPage
               ELSE ingPc' = "fetch"
      ]_vars

\* a run is at the second entry of a page, whose first entry it has skipped
\* for want of metadata or of a marketplace address, and the second is a sale
C27_Witness ==
    /\ ingPc = "entry" /\ ingI = 2 /\ ingResult = "running"
    /\ Skippable(ingPage[1]) /\ ingPage[1] \notin StoreIds
    /\ IsSale(ingPage[2])

\* C28: no stored record is a Solsea sale with a price below 50,000,000; a
\* step of the run at a marketplace entry that is not stored, the calls of the
\* step answering, discards a Solsea entry priced below 50,000,000 (nothing
\* created, no error, the run goes on) and creates the record of any other
\* entry, of whatever marketplace and price.
C28_NoiseFilter ==
    [][ /\ \A r \in store' : ~(r.marketplace = "Solsea" /\ r.price < 50000000)
        /\ ( /\ ingPc = "entry"
             /\ IngestStepped
             /\ ingPage[ingI] \notin StoreIds
             /\ chain[ingPage[ingI]].tx.meta
             /\ ~Skippable(ingPage[ingI])
             /\ ingResult' \notin {"err", "panic"} ) =>
               LET tx == chain[ingPage[ingI]].tx
                   m  == addressMap(tx.keys[1])
               IN  IF m = "Solsea" /\ tx.price < 50000000
                   THEN /\ store' = store /\ creates' = creates
                        /\ ingResult' = "running" /\ ingPc' # "idle"
                   ELSE \E r \in store' :
                           r.id = ingPage[ingI] /\ r.marketplace = m /\ r.price = tx.price
      ]_vars

\* a page is done in which a Solsea entry below the minimum was passed over
\* and a Magic Eden sale below it was stored, next to a stored Solsea sale at
\* the minimum
C28_Witness ==
    /\ ingPc = "fetch" /\ ingBefore # NoSig /\ ingResult = "running"
    /\ \E r \in store :
          r.id = ingBefore /\ r.marketplace = "Magic Eden" /\ r.price < 50000000
    /\ \E r \in store : r.marketplace = "Solsea" /\ r.price = 50000000
    /\ \E i \in 1..Len(chain) :
          /\ i > ingBefore /\ i \notin StoreIds
          /\ chain[i].tx.keys = <<SolseaAddr>> /\ chain[i].tx.price < 50000000

\* C29: at the step by which a run returns nil, after an empty page or at a
\* duplicate (the feed unchanged since the run started), every signature the
\* run went through (those newer than the duplicate it stopped at, or newer
\* than until when it stopped at an empty page) that resolved into a record
\* is in the store.
C29_WrittenBeforeReturn ==
    [][ ( /\ ingPc # "idle" /\ ingPc' = "idle"
          /\ ingResult' = "ok"
          /\ ingStop' \in {"empty", "dup"}
          /\ ingHist'.steady ) =>
            LET stop == IF ingPc = "entry" THEN ingPage[ingI]
                        ELSE IF ingUntil \in 1..Len(chain) THEN ingUntil ELSE 0
            IN  \A i \in (stop + 1)..Len(chain) :
                    IsSale(i) => \E r \in store' : r.id = i
      ]_vars

\* a run over an unchanged feed has stored two records or more, one of them
\* its own, and returned nil at an empty page
C29_Witness ==
    /\ ingPc = "idle" /\ ingResult = "ok" /\ ingStop = "empty"
    /\ ingHist.steady /\ ingHist.created
    /\ Cardinality(store) >= 2

\* C30: a run that has started ends (the feed being finite, the source
\* answering each fetch with the signatures strictly older than before, and
\* each step of the run being taken in the end); and a step of the run ends
\* it exactly when the page fetched is empty, the entry at hand is already
\* stored, or a call of the step fails.
C30_RunTerminates ==
    /\ (ingPc # "idle") ~> (ingPc = "idle")
    /\ [][ (ingPc # "idle" /\ IngestStepped) =>
              ( (ingPc' = "idle") <=>
                  \/ ingPc = "fetch" /\ Len(GetSignaturesForAddress(ingBefore, ingUntil)) = 0
                  \/ ingPc = "entry" /\ ingPage[ingI] \in StoreIds
                  \/ ingResult' \in {"err", "panic"} )
         ]_vars

\* a run has gone through a page or more, has skipped an entry and stored
\* one, and is about to fetch the empty page that ends it
C30_Witness ==
    /\ ingPc = "fetch" /\ ingBefore # NoSig /\ ingResult = "running"
    /\ Len(GetSignaturesForAddress(ingBefore, ingUntil)) = 0
    /\ \E i \in 1..Len(chain) : i >= ingBefore /\ Skippable(i)
    /\ \E i \in 1..Len(chain) : i >= ingBefore /\ i \in StoreIds

\* the APPEND requests of the upload, in the order they were sent
Appends == SelectSeq(up.sent, LAMBDA r : r.cmd = "APPEND")

CeilDiv(n, m) == (n + m - 1) \div m

\* C31: the k-th segment sent has index k - 1, is at least one byte and at most
\* 1 MiB long, and starts where the segment before it ended (the first at
\* byte 0); every segment followed by another is exactly 1 MiB long; once the
\* loop is over, ceil(N / 1 MiB) segments were sent and the last one ends at
\* byte N, so that the segments in index order make up the image; an empty
\* image sends no segment.
C31_Chunking ==
    LET a == Appends
    IN  /\ \A k \in 1..Len(a) :
              /\ a[k].index = k - 1
              /\ a[k].len >= 1 /\ a[k].len <= 1048576
              /\ a[k].from = IF k = 1 THEN 0 ELSE a[k - 1].from + a[k - 1].len
              /\ k < Len(a) => a[k].len = 1048576
              /\ a[k].from + a[k].len <= up.size
        /\ Len(a) <= CeilDiv(up.size, 1048576)
        /\ (up.pc = "finalize" \/ up.result = "ok") =>
              /\ Len(a) = CeilDiv(up.size, 1048576)
              /\ Len(a) > 0 => a[Len(a)].from + a[Len(a)].len = up.size
        /\ up.size = 0 => Len(a) = 0

\* an image of one byte more than a segment went up in two segments
C31_Witness ==
    /\ up.result = "ok" /\ up.size = 1048576 + 1
    /\ Len(Appends) = 2 /\ Appends[2].len = 1

\* C32: INIT is the first request of an upload and is sent once; requests go
\* out one at a time, each only after the one before it was answered 2xx;
\* FINALIZE is sent once, last, after every segment of the image was sent and
\* accepted; a request that fails or is answered outside 2xx ends the upload
\* with an error and the empty media id, and nothing more is sent for it; an
\* upload that returns no error returns the media id of INIT after FINALIZE.
C32_UploadOrder ==
    [][ up' # up =>
          LET s == up'.sent
              n == Len(s)
          IN  /\ \A k \in 1..n : s[k].cmd = "INIT" <=> k = 1
              /\ \A k \in 1..n : s[k].cmd = "FINALIZE" =>
                    /\ k = n
                    /\ n - 2 = CeilDiv(up'.size, 1048576)
                    /\ up'.i = n - 2 /\ up'.rest = 0
              /\ n > Len(up.sent) =>
                    /\ n = Len(up.sent) + 1
                    /\ Len(up.sent) > 0 => up.last = "2xx"
              /\ up'.last \in {"non2xx", "error"} =>
                    (up'.pc = "done" /\ up'.result = "err" /\ up'.out = "")
              /\ up'.result = "err" => up'.out = ""
              /\ up'.result = "ok" =>
                    (n >= 2 /\ s[n].cmd = "FINALIZE" /\ up'.out = up'.media)
              /\ up.pc = "done" => n = 0
      ]_vars

\* the second of two segments was refused after INIT had handed out a media id
C32_Witness ==
    /\ up.pc = "done" /\ up.result = "err" /\ up.last = "non2xx"
    /\ up.media = "m1" /\ up.out = ""
    /\ Len(up.sent) = 3 /\ up.sent[3].cmd = "APPEND" /\ up.i = 1

\* C33: at every point of a publication attempt the remote steps made so far
\* are an initial stretch of metadata, download, upload, post, update, and it
\* is the stretch that ends at the point the run is at: nothing before the
\* metadata is fetched, the three media steps before the post, the post
\* before the update; and an attempt that ended at a failed step has made no
\* later step, so that a run whose metadata fetch failed (no string field
\* `image` included) has downloaded, uploaded and posted nothing.
C33_StepsInOrder ==
    LET m == {"metadata"}
        d == m \cup {"download"}
        u == d \cup {"upload"}
        p == u \cup {"post"}
        r == p \cup {"update"}
    IN  /\ pubPc = "media" => pubDid = {}
        /\ pubPc \in {"post", "sleep"} => pubDid = u
        /\ pubPc = "record" => pubDid = p
        /\ pubPc = "idle" =>
              /\ pubStop \in {"none", "list", "notfound"} => pubDid = {}
              /\ pubStop = "metadata" => pubDid = m
              /\ pubStop = "download" => pubDid = d
              /\ pubStop \in {"upload", "skip", "post", "429"} => pubDid = u
              /\ pubStop \in {"tweetdecode", "update"} => pubDid = p
              /\ pubStop = "recorded" => pubDid = r

\* a run over a store with an unpublished record ended at the metadata
C33_Witness ==
    /\ pubPc = "idle" /\ pubResult = "err" /\ pubStop = "metadata"
    /\ pubDid = {"metadata"}
    /\ \E rec \in store : rec.publishDetails.null

\* C34: with ingestion and publication runs interleaved in any way and failing
\* anywhere, every stored record has either null publishDetails and no media
\* id, or publishDetails of a successful post together with a media id; and
\* the step that writes them writes both, the media id being the one the post
\* of that record was sent with.
C34_CrossFieldConsistency ==
    [][ /\ \A r \in store' :
              \/ r.publishDetails.null /\ r.twitterMediaId = ""
              \/ /\ ~r.publishDetails.null /\ r.publishDetails.success
                 /\ r.publishDetails.id \in TweetIds
                 /\ r.twitterMediaId \in MediaIds
        /\ \A r \in store' : r \notin store /\ r.id \in StoreIds =>
              /\ pubPc = "record" /\ r.id = pubOldest[1].id
              /\ r.twitterMediaId = pubOldest[1].twitterMediaId
              /\ r.twitterMediaId = pubMediaID
              /\ r.publishDetails.id = pubTweet
      ]_vars

\* a published record, and a publication run that has posted the next record
\* but not recorded it yet, while an ingestion run is under way
C34_Witness ==
    /\ \E r \in store : ~r.publishDetails.null /\ r.twitterMediaId = "m1"
    /\ pubPc = "record" /\ ingPc = "entry"
    /\ \E r \in store : r.id = pubOldest[1].id /\ r.publishDetails.null /\ r.twitterMediaId = ""

\* C35: no step of an ingestion or publication run takes an id out of the
\* store, and a record whose publishDetails are set has them set after every
\* step.
C35_StoreOnlyGrows ==
    [][ /\ StoreIds \subseteq {q.id : q \in store'}
        /\ \A r \in store : ~r.publishDetails.null =>
              \A q \in store' : q.id = r.id => ~q.publishDetails.null
      ]_vars

\* every signature of a full feed is stored and one of the records is
\* published, another not
C35_Witness ==
    /\ Len(chain) = MaxFeed /\ StoreIds = 1..Len(chain)
    /\ \E r \in store : ~r.publishDetails.null
    /\ \E r \in store : r.publishDetails.null

\* C36: over every sequence of publication runs no sale is posted to the
\* channel when it has been posted before.
C36_PostedAtMostOnce == ~posted.again

SkipReturn == pubPc = "media" /\ pubSkip /\ pubPc' = "idle" /\ pubResult' = "ok"

\* C38 as stated: a run with skipPublish set makes the three media steps,
\* sends no post and writes nothing, the selected record staying in the store
\* as it was; and the query of the next run can return that record only.
C38_SkipSelectsSameRecord ==
    [][ SkipReturn =>
          /\ pubDid' = {"metadata", "download", "upload"}
          /\ posted' = posted
          /\ store' = store
          /\ pubOldest[1] \in store'
          /\ ListOldestNonPublished' = {<<pubOldest[1]>>}
      ]_vars

\* C38: a run with skipPublish set makes the three media steps, sends no post
\* and writes nothing: the selected record stays in the store as it was, with
\* null publishDetails and eligible; and the query of the next run returns
\* that record again unless the store has by then another eligible record
\* with the same or an earlier saleTime (one that was ingested meanwhile, or
\* one of equal saleTime).
C38_SkipLeavesRecord ==
    [][ SkipReturn =>
          /\ pubDid' = {"metadata", "download", "upload"}
          /\ posted' = posted
          /\ store' = store
          /\ pubOldest[1] \in store'
          /\ pubOldest[1].publishDetails.null /\ pubOldest[1].saleTime >= Cutoff
          /\ (\A q \in store' \ {pubOldest[1]} :
                 (q.publishDetails.null /\ q.saleTime >= Cutoff)
                     => pubOldest[1].saleTime < q.saleTime)
                => ListOldestNonPublished' = {<<pubOldest[1]>>}
      ]_vars

\* a run with skipPublish set has returned after the upload, and the store
\* has an eligible record and a later one
C38_Witness ==
    /\ pubPc = "idle" /\ pubResult = "ok" /\ pubStop = "skip"
    /\ pubDid = {"metadata", "download", "upload"}
    /\ \E r, q \in Eligible(store) : r.saleTime < q.saleTime

\* C39: a call of GetActivityHistory returns an error without sending a
\* request exactly when params are given whose trading types are fewer than
\* one, more than three or not all among SALE, LISTING and OFFER.  Otherwise
\* the request carries the given trading types, a limit between 1 and 20 (20
\* for 0 and for more than 20, 1 for a negative one, the given limit
\* otherwise) and a Before that is nil when the given instant was after
\* time.Now() and the given one otherwise; for nil params it carries the
\* defaults: limit 20, the three trading types, nil Before.
C39_ConfiguredParams ==
    qp.pc = "done" =>
        LET g == qp.given
            n == Len(g.TradingTypes)
            bad == ~g.nil /\ ( \/ n < 1
                               \/ n > 3
                               \/ \E i \in 1..n : g.TradingTypes[i] \notin {"SALE", "LISTING", "OFFER"} )
        IN  /\ qp.err <=> bad
            /\ qp.err => (qp.sent = <<>> /\ qp.result = "err")
            /\ ~qp.err =>
                  /\ Len(qp.sent) = 1
                  /\ qp.sent[1].limit \in 1..20
                  /\ Len(qp.sent[1].tradingTypes) \in 1..3
                  /\ \A i \in 1..Len(qp.sent[1].tradingTypes) :
                        qp.sent[1].tradingTypes[i] \in {"SALE", "LISTING", "OFFER"}
                  /\ g.nil =>
                        /\ qp.sent[1].limit = 20
                        /\ qp.sent[1].tradingTypes = <<"SALE", "LISTING", "OFFER">>
                        /\ qp.sent[1].before = NoBefore
                  /\ ~g.nil =>
                        /\ qp.sent[1].tradingTypes = g.TradingTypes
                        /\ g.Limit = 0 => qp.sent[1].limit = 20
                        /\ g.Limit > 20 => qp.sent[1].limit = 20
                        /\ g.Limit < 0 => qp.sent[1].limit = 1
                        /\ g.Limit \in 1..20 => qp.sent[1].limit = g.Limit
                        /\ (g.Before # NoBefore /\ g.Before > qp.now)
                              => qp.sent[1].before = NoBefore
                        /\ ~(g.Before # NoBefore /\ g.Before > qp.now)
                              => qp.sent[1].before = g.Before

\* a request was sent for params with a limit above 20, three trading types
\* and a Before in the future
C39_Witness ==
    /\ qp.pc = "done" /\ ~qp.err
    /\ qp.given.Limit > 20 /\ qp.given.Before > qp.now
    /\ Len(qp.given.TradingTypes) = 3
    /\ Len(qp.sent) = 1 /\ qp.sent[1].limit = 20 /\ qp.sent[1].before = NoBefore


====
